---------------------------- MODULE Spec2Model ----------------------------
(***************************************************************************)
(* Model of pylgbst/peripherals.py: the Peripheral base class and the      *)
(* LED, EncodedMotor and TiltSensor peripherals of a Move Hub.             *)
(*                                                                         *)
(* One peripheral object is under study in each behaviour (its class and   *)
(* port are fixed by Init, as the constructors fix them).  The transport   *)
(* (parent.connection) is a spy: `written` holds the packets that the most *)
(* recent peripheral operation handed to connection.write, in order.       *)
(*                                                                         *)
(* Numbers with a fractional part are scaled integers:                     *)
(*   seconds  = t / (1000 * TimeRes)      (t counts 1/TimeRes milliseconds)*)
(*   relative = s / (100 * SpeedRes)      (s counts 1/SpeedRes percent)    *)
(* Bytes are the integers 0..255 and byte strings are sequences of bytes.  *)
(***************************************************************************)
EXTENDS Integers, Sequences, FiniteSets, TLC

(* ------------------------------ bounds --------------------------------- *)
TimeRes == 3          \* sub-millisecond steps per millisecond
SpeedRes == 4         \* sub-percent steps per percent of relative speed
TimeEdge == 4         \* how far (in steps) times range around 0 and 65536 ms
SpeedEdge == 1        \* how far (in steps) speeds range around -1, 0, 0.5, 1
AngleEdge == 1        \* how far angles range around 0 and 2^32
NumCallbacks == 2     \* distinct subscriber callbacks

(* ---------------- pylgbst.constants (imported, line 6) ----------------- *)
PACKET_VER == 1
MSG_SET_PORT_VAL == 129
MSG_SENSOR_SUBSCRIBE == 65
MOVE_HUB_HARDWARE_HANDLE == 14
PORT_C == 1
PORT_D == 2
PORT_LED == 50
PORT_A == 55
PORT_B == 56
PORT_AB == 57
PORT_TILT_SENSOR == 58
MaxColor == 10
COLORS == 0..MaxColor
TILT_SENSOR_MODE_FULL == 0
TILT_SENSOR_MODE_2AXIS == 1
TILT_SENSOR_MODE_BASIC == 2
TILT_SENSOR_MODE_OFF == 3

(* --------------------------- byte helpers ------------------------------ *)
\* pylgbst.int2byte: the one-byte string holding val
int2byte(val) == <<val>>

\* pylgbst.get_byte: the byte of data at position i (0-based)
get_byte(data, i) == data[i + 1]

\* a 2-byte packing with the most significant byte first
pack_H_big(v) == <<(v \div 256) % 256, v % 256>>

\* struct.pack('<H', v): 2 bytes, least significant first
pack_H(v) == <<v % 256, (v \div 256) % 256>>

\* struct.pack('<I', v): 4 bytes, least significant first.  An angle v is
\* held as its two 16-bit halves, v = 65536 * v.hi + v.lo with v.lo in
\* 0..65535, so that values around 2^32 stay within 32-bit integers.
pack_I(v) == pack_H(v.lo) \o pack_H(v.hi)

\* struct.pack('<I', v) raises struct.error: v < 0 or v >= 2^32
pack_I_raises(v) == v.hi < 0 \/ v.hi >= 65536

\* int(x) of the rational n/d (d > 0): truncation toward zero
int(n, d) == IF n >= 0 THEN n \div d ELSE -((-n) \div d)

\* round(x) of the rational n/d (d > 0): nearest integer, halves away from
\* zero (the module is Python 2 code: `async` parameter, str literals)
round(n, d) == IF n >= 0 THEN (2 * n + d) \div (2 * d)
               ELSE -((2 * (-n) + d) \div (2 * d))

(* ----------------------------- Peripheral ------------------------------ *)
\* _write_to_hub with the length byte taken before the byte itself is counted
_write_to_hub_short(port, msg_type, params) ==
    LET cmd == int2byte(PACKET_VER) \o int2byte(msg_type) \o int2byte(port)
               \o params
    IN  int2byte(Len(cmd)) \o cmd

\* Peripheral._write_to_hub: the packet handed to connection.write
_write_to_hub(port, msg_type, params) ==
    LET cmd == int2byte(PACKET_VER) \o int2byte(msg_type) \o int2byte(port)
               \o params
    IN  int2byte(Len(cmd) + 1) \o cmd

\* Peripheral._set_port_val
_set_port_val(port, value) == _write_to_hub(port, MSG_SET_PORT_VAL, value)

\* Peripheral._subscribe_on_port
_subscribe_on_port(port, params) ==
    _write_to_hub(port, MSG_SENSOR_SUBSCRIBE, params)

\* one call of parent.connection.write as the spy records it
connection_write(packet) ==
    [handle |-> MOVE_HUB_HARDWARE_HANDLE, data |-> packet]

(* ----------------------------- EncodedMotor ---------------------------- *)
TRAILER == <<100, 127, 3>>
MOVEMENT_TYPE == <<17>>
TIMED_SINGLE == <<9>>
TIMED_GROUP == <<10>>
ANGLED_SINGLE == <<11>>
ANGLED_GROUP == <<12>>
MotorPorts == {PORT_A, PORT_B, PORT_AB, PORT_C, PORT_D}

\* EncodedMotor._speed_abs raises ValueError (s counts 1/SpeedRes percent)
_speed_abs_raises(s) == s < -1 * 100 * SpeedRes \/ s > 1 * 100 * SpeedRes

\* _speed_abs wrapping a negative value by 256
_speed_abs_256(s) ==
    LET absolute == round(s, SpeedRes)
    IN  IF absolute < 0 THEN absolute + 256 ELSE absolute

\* EncodedMotor._speed_abs: the value returned when it does not raise
_speed_abs(s) ==
    LET absolute == round(s, SpeedRes)
    IN  IF absolute < 0 THEN absolute + 255 ELSE absolute

\* speed_secondary defaults to speed_primary; None is <<>>, a value v is <<v>>
secondary(speed_primary, speed_secondary) ==
    IF speed_secondary = <<>> THEN speed_primary ELSE speed_secondary[1]

\* EncodedMotor._wrap_and_write raises ValueError before any write
_wrap_raises(port, speed_primary, speed_secondary) ==
    \/ _speed_abs_raises(speed_primary)
    \/ port = PORT_AB /\ _speed_abs_raises(speed_secondary)

\* _wrap_and_write that repeats the primary speed for the second motor
_wrap_and_write_primary(port, command, speed_primary, speed_secondary) ==
    LET c1 == MOVEMENT_TYPE \o command
        c2 == c1 \o int2byte(_speed_abs(speed_primary))
        c3 == IF port = PORT_AB
              THEN c2 \o int2byte(_speed_abs(speed_primary))
              ELSE c2
    IN  c3 \o TRAILER

\* EncodedMotor._wrap_and_write: the payload passed to _set_port_val
_wrap_and_write(port, command, speed_primary, speed_secondary) ==
    LET c1 == MOVEMENT_TYPE \o command
        c2 == c1 \o int2byte(_speed_abs(speed_primary))
        c3 == IF port = PORT_AB
              THEN c2 \o int2byte(_speed_abs(speed_secondary))
              ELSE c2
    IN  c3 \o TRAILER

(* ------------------------------- inputs -------------------------------- *)
Callbacks == 1..NumCallbacks
TwoTo16 == 65536
SecondsVals == ((-TimeEdge)..TimeEdge)
               \cup ((TwoTo16 * TimeRes - TimeEdge)..(TwoTo16 * TimeRes + TimeEdge))
               \cup {500 * TimeRes}
SpeedVals == UNION {(c - SpeedEdge)..(c + SpeedEdge) :
                    c \in {-100 * SpeedRes, 0, 50 * SpeedRes, 100 * SpeedRes}}
SecondaryVals == {<<>>} \cup {<<s>> : s \in
                   {-100 * SpeedRes - 1, -100 * SpeedRes, 100 * SpeedRes,
                    100 * SpeedRes + 1}}
AngleVals == {[hi |-> IF k < 0 THEN base - 1 ELSE base, lo |-> k % TwoTo16] :
                k \in (-AngleEdge)..AngleEdge, base \in {0, TwoTo16}}
             \cup {[hi |-> 0, lo |-> 360]}
\* the motor commands studied: one per behaviour, fixed by Init
Requests ==
    [op : {"timed"}, seconds : SecondsVals, speed_primary : SpeedVals,
     speed_secondary : SecondaryVals]
    \cup [op : {"angled"}, angle : AngleVals, speed_primary : SpeedVals,
          speed_secondary : SecondaryVals]
ColorVals == (-1)..(MaxColor + 1)
TiltModes == {TILT_SENSOR_MODE_BASIC, TILT_SENSOR_MODE_2AXIS,
              TILT_SENSOR_MODE_FULL}
ModeVals == TiltModes \cup {TILT_SENSOR_MODE_OFF, 4}
ByteVals == {90, 90 + 1}

(* ------------------------------- state --------------------------------- *)
VARIABLES
    kind,         \* class of the peripheral: "LED", "EncodedMotor", "TiltSensor"
    port,         \* self.port
    request,      \* EncodedMotor: the command the caller issues to the motor
    working,      \* self.working
    subscribers,  \* self._subscribers
    mode,         \* TiltSensor.mode (TILT_SENSOR_MODE_OFF for other classes)
    pc,           \* caller thread: "idle", or "sleeping" inside timed()
    lastOp,       \* the caller's latest command: its arguments and outcome
    written,      \* connection.write calls made by the latest operation
    npc,          \* notification thread: "idle" or "iter" (inside the for loop)
    it_used,      \* size of the set when the running set iterator was created
    pending,      \* entries the running set iterator has not reached yet
                  \* ({} when no iterator is running)
    ndata,        \* the payload the latest handle_notification was given
    nargs,        \* the values handle_notification passes to the subscribers
    delivered,    \* per callback, the argument tuples it got in this delivery
    nresult       \* how the latest handle_notification ended

vars == <<kind, port, request, working, subscribers, mode, pc, lastOp, written,
          npc, it_used, pending, ndata, nargs, delivered, nresult>>

callerVars == <<working, subscribers, mode, pc, lastOp, written>>
notifyVars == <<npc, it_used, pending, ndata, nargs, delivered, nresult>>


(* -------------------------------- Init --------------------------------- *)
\* Peripheral.__init__, EncodedMotor.__init__ (a valid motor port),
\* TiltSensor.__init__
Init ==
    /\ kind \in {"LED", "EncodedMotor", "TiltSensor"}
    /\ port \in CASE kind = "LED" -> {PORT_LED}
                  [] kind = "EncodedMotor" -> MotorPorts
                  [] OTHER -> {PORT_TILT_SENSOR}
    /\ request \in IF kind = "EncodedMotor" THEN Requests
                   ELSE {[op |-> "none"]}
    /\ working = FALSE
    /\ subscribers = {}
    /\ mode = TILT_SENSOR_MODE_OFF
    /\ pc = "idle"
    /\ lastOp = [op |-> "__init__", result |-> "ok"]
    /\ written = <<>>
    /\ npc = "idle"
    /\ it_used = 0
    /\ pending = {}
    /\ ndata = <<>>
    /\ nargs = <<>>
    /\ delivered = [c \in Callbacks |-> <<>>]
    /\ nresult = "none"

(* ------------------------- Peripheral operations ----------------------- *)
\* Peripheral.started
started ==
    /\ pc = "idle"
    /\ working' = TRUE
    /\ UNCHANGED <<kind, port, request, subscribers, mode, pc, lastOp, written>>
    /\ UNCHANGED notifyVars

\* Peripheral.finished
finished ==
    /\ pc = "idle"
    /\ working' = FALSE
    /\ UNCHANGED <<kind, port, request, subscribers, mode, pc, lastOp, written>>
    /\ UNCHANGED notifyVars

(* --------------------------------- LED --------------------------------- *)
\* LED.set_color(color); wok: whether connection.write succeeds
set_color(color, wok) ==
    LET result == IF color \notin COLORS THEN "ValueError"
                  ELSE IF ~wok THEN "TransportError" ELSE "ok"
        cmd == <<17, 81, 0>> \o int2byte(color)
    IN  /\ kind = "LED"
        /\ pc = "idle"
        /\ written' = IF result = "ValueError" THEN <<>>
                      ELSE <<connection_write(_set_port_val(port, cmd))>>
        /\ lastOp' = [op |-> "set_color", color |-> color, result |-> result]
        /\ UNCHANGED <<kind, port, request, working, subscribers, mode, pc>>
        /\ UNCHANGED notifyVars

(* ----------------------------- EncodedMotor ---------------------------- *)
\* timed that never waits, whatever async says
timed_result_nowait(t, speed_primary, speed_secondary, async, wok) ==
    LET msec == int(t, TimeRes)
    IN  IF msec >= TwoTo16 THEN "ValueError"
        ELSE IF msec < 0 THEN "struct.error"
        ELSE IF _wrap_raises(port, speed_primary,
                             secondary(speed_primary, speed_secondary))
             THEN "ValueError"
        ELSE IF ~wok THEN "TransportError"
        ELSE "ok"

\* how EncodedMotor.timed ends for seconds = t / (1000 * TimeRes):
\* "blocked" is the call inside time.sleep(seconds)
timed_result(t, speed_primary, speed_secondary, async, wok) ==
    LET msec == int(t, TimeRes)
    IN  IF msec >= TwoTo16 THEN "ValueError"
        ELSE IF msec < 0 THEN "struct.error"
        ELSE IF _wrap_raises(port, speed_primary,
                             secondary(speed_primary, speed_secondary))
             THEN "ValueError"
        ELSE IF ~wok THEN "TransportError"
        ELSE IF async THEN "ok"
        ELSE IF t < 0 THEN "IOError"
        ELSE "blocked"

\* the packet EncodedMotor.timed hands to the transport
timed_packet(t, speed_primary, speed_secondary) ==
    LET command == (IF port = PORT_AB THEN TIMED_GROUP ELSE TIMED_SINGLE)
                   \o pack_H(int(t, TimeRes))
    IN  _set_port_val(port,
            _wrap_and_write(port, command, speed_primary,
                            secondary(speed_primary, speed_secondary)))

\* EncodedMotor.timed(seconds, speed_primary, speed_secondary, async), up to
\* its return or to the point where it blocks in time.sleep
timed(t, speed_primary, speed_secondary, async, wok) ==
    LET result == timed_result(t, speed_primary, speed_secondary, async, wok)
    IN  /\ kind = "EncodedMotor"
        /\ pc = "idle"
        /\ written' = IF result \in {"ValueError", "struct.error"} THEN <<>>
                      ELSE <<connection_write(
                               timed_packet(t, speed_primary, speed_secondary))>>
        /\ pc' = IF result = "blocked" THEN "sleeping" ELSE "idle"
        /\ lastOp' = [op |-> "timed", seconds |-> t,
                      speed_primary |-> speed_primary,
                      speed_secondary |-> speed_secondary, async |-> async,
                      result |-> result]
        /\ UNCHANGED <<kind, port, request, working, subscribers, mode>>
        /\ UNCHANGED notifyVars

\* time.sleep(seconds) returns and EncodedMotor.timed with it
timed_wake ==
    /\ pc = "sleeping"
    /\ pc' = "idle"
    /\ lastOp' = [lastOp EXCEPT !.result = "ok"]
    /\ UNCHANGED <<kind, port, request, working, subscribers, mode, written>>
    /\ UNCHANGED notifyVars

\* how EncodedMotor.angled ends
angled_result(angle, speed_primary, speed_secondary, wok) ==
    IF pack_I_raises(angle) THEN "struct.error"
    ELSE IF _wrap_raises(port, speed_primary,
                         secondary(speed_primary, speed_secondary))
         THEN "ValueError"
    ELSE IF ~wok THEN "TransportError"
    ELSE "ok"

\* the packet EncodedMotor.angled hands to the transport
angled_packet(angle, speed_primary, speed_secondary) ==
    LET command == (IF port = PORT_AB THEN ANGLED_GROUP ELSE ANGLED_SINGLE)
                   \o pack_I(angle)
    IN  _set_port_val(port,
            _wrap_and_write(port, command, speed_primary,
                            secondary(speed_primary, speed_secondary)))

\* EncodedMotor.angled(angle, speed_primary, speed_secondary)
angled(angle, speed_primary, speed_secondary, wok) ==
    LET result == angled_result(angle, speed_primary, speed_secondary, wok)
    IN  /\ kind = "EncodedMotor"
        /\ pc = "idle"
        /\ written' = IF result \in {"ValueError", "struct.error"} THEN <<>>
                      ELSE <<connection_write(
                               angled_packet(angle, speed_primary, speed_secondary))>>
        /\ lastOp' = [op |-> "angled", angle |-> angle,
                      speed_primary |-> speed_primary,
                      speed_secondary |-> speed_secondary,
                      result |-> result]
        /\ UNCHANGED <<kind, port, request, working, subscribers, mode, pc>>
        /\ UNCHANGED notifyVars

(* ------------------------------ TiltSensor ----------------------------- *)
\* the packet TiltSensor._switch_mode hands to the transport
_switch_mode(m) ==
    _subscribe_on_port(port, int2byte(m) \o <<1, 0, 0, 0, 1>>)

\* how TiltSensor.subscribe ends
subscribe_result(m, wok) ==
    IF m \notin TiltModes THEN "ValueError"
    ELSE IF ~wok THEN "TransportError"
    ELSE "ok"

\* subscribe that sends the command first and sets the mode on success
subscribe_write_first(callback, m, wok) ==
    LET result == subscribe_result(m, wok)
    IN  /\ kind = "TiltSensor"
        /\ pc = "idle"
        /\ mode' = IF result = "ok" THEN m ELSE mode
        /\ written' = IF result = "ValueError" THEN <<>>
                      ELSE <<connection_write(_switch_mode(m))>>
        /\ subscribers' = IF result = "ok" THEN subscribers \cup {callback}
                          ELSE subscribers
        /\ pending' \in IF result = "ok" /\ npc = "iter"
                           /\ callback \notin subscribers
                           /\ delivered[callback] = <<>>
                        THEN {pending, pending \cup {callback}}
                        ELSE {pending}
        /\ lastOp' = [op |-> "subscribe", callback |-> callback, mode |-> m,
                      result |-> result]
        /\ UNCHANGED <<kind, port, request, working, pc>>
        /\ UNCHANGED <<npc, it_used, ndata, nargs, delivered, nresult>>

\* TiltSensor.subscribe(callback, mode).  A set iterator running in the
\* notification thread may or may not reach an entry added behind its back,
\* depending on the slot the entry lands in; an entry the iterator has
\* already yielded, removed and added again, takes its former slot and is
\* not reached again.
subscribe(callback, m, wok) ==
    LET result == subscribe_result(m, wok)
    IN  /\ kind = "TiltSensor"
        /\ pc = "idle"
        /\ mode' = IF result = "ValueError" THEN mode ELSE m
        /\ written' = IF result = "ValueError" THEN <<>>
                      ELSE <<connection_write(_switch_mode(m))>>
        /\ subscribers' = IF result = "ok" THEN subscribers \cup {callback}
                          ELSE subscribers
        /\ pending' \in IF result = "ok" /\ npc = "iter"
                           /\ callback \notin subscribers
                           /\ delivered[callback] = <<>>
                        THEN {pending, pending \cup {callback}}
                        ELSE {pending}
        /\ lastOp' = [op |-> "subscribe", callback |-> callback, mode |-> m,
                      result |-> result]
        /\ UNCHANGED <<kind, port, request, working, pc>>
        /\ UNCHANGED <<npc, it_used, ndata, nargs, delivered, nresult>>

\* how TiltSensor.unsubscribe ends
unsubscribe_result(callback, wok) ==
    IF callback \notin subscribers THEN "KeyError"
    ELSE IF subscribers \ {callback} = {} /\ ~wok THEN "TransportError"
    ELSE "ok"

\* unsubscribe that switches the sensor off only when told to
unsubscribe_keeps_mode(callback, wok) ==
    LET result == IF callback \notin subscribers THEN "KeyError" ELSE "ok"
    IN  /\ kind = "TiltSensor"
        /\ pc = "idle"
        /\ subscribers' = subscribers \ {callback}
        /\ pending' = pending \ {callback}
        /\ written' = <<>>
        /\ lastOp' = [op |-> "unsubscribe", callback |-> callback,
                      result |-> result]
        /\ UNCHANGED <<kind, port, request, working, pc, mode>>
        /\ UNCHANGED <<npc, it_used, ndata, nargs, delivered, nresult>>

\* unsubscribe that ignores a callback it does not hold (set.discard)
unsubscribe_discard(callback, wok) ==
    LET rest == subscribers \ {callback}
        result == IF rest = {} /\ ~wok THEN "TransportError" ELSE "ok"
    IN  /\ kind = "TiltSensor"
        /\ pc = "idle"
        /\ subscribers' = rest
        /\ pending' = pending \ {callback}
        /\ mode' = IF rest = {} THEN TILT_SENSOR_MODE_OFF ELSE mode
        /\ written' = IF rest = {}
                      THEN <<connection_write(_switch_mode(TILT_SENSOR_MODE_OFF))>>
                      ELSE <<>>
        /\ lastOp' = [op |-> "unsubscribe", callback |-> callback,
                      result |-> result]
        /\ UNCHANGED <<kind, port, request, working, pc>>
        /\ UNCHANGED <<npc, it_used, ndata, nargs, delivered, nresult>>

\* TiltSensor.unsubscribe(callback)
unsubscribe(callback, wok) ==
    LET result == unsubscribe_result(callback, wok)
        rest == subscribers \ {callback}
        last == result # "KeyError" /\ rest = {}
    IN  /\ kind = "TiltSensor"
        /\ pc = "idle"
        /\ subscribers' = rest
        /\ pending' = pending \ {callback}
        /\ mode' = IF last THEN TILT_SENSOR_MODE_OFF ELSE mode
        /\ written' = IF last
                      THEN <<connection_write(_switch_mode(TILT_SENSOR_MODE_OFF))>>
                      ELSE <<>>
        /\ lastOp' = [op |-> "unsubscribe", callback |-> callback,
                      result |-> result]
        /\ UNCHANGED <<kind, port, request, working, pc>>
        /\ UNCHANGED <<npc, it_used, ndata, nargs, delivered, nresult>>

\* a decode of the byte as a plain two's complement signed byte
_byte2deg_signed(val) == IF val > 127 THEN val - 256 ELSE val

\* TiltSensor._byte2deg
_byte2deg(val) == IF val > 90 THEN val - 256 ELSE val

\* a notification payload: handle_notification reads offsets 4 and 5 only
Notification(b4, b5) == <<0, 0, 0, 0, b4, b5>>

\* a decode that reads one raw value whatever the mode
decode_raw(data) == <<get_byte(data, 4)>>

\* the values TiltSensor.handle_notification decodes in the current mode
decode(data) ==
    IF mode = TILT_SENSOR_MODE_BASIC THEN <<get_byte(data, 4)>>
    ELSE IF mode = TILT_SENSOR_MODE_FULL
         THEN <<_byte2deg(get_byte(data, 4)), _byte2deg(get_byte(data, 5))>>
    ELSE <<get_byte(data, 4)>>

\* TiltSensor.handle_notification(data), in the notification thread, up to
\* the creation of the iterator of `for subscriber in self._subscribers`;
\* in any other mode than BASIC, FULL, 2AXIS the data is logged and dropped
handle_notification(data) ==
    /\ kind = "TiltSensor"
    /\ npc = "idle"
    /\ IF mode \in TiltModes
       THEN /\ npc' = "iter"
            /\ nargs' = decode(data)
            /\ it_used' = Cardinality(subscribers)
            /\ pending' = subscribers
            /\ nresult' = "running"
       ELSE /\ npc' = "idle"
            /\ nargs' = <<>>
            /\ it_used' = 0
            /\ pending' = {}
            /\ nresult' = "dropped"
    /\ ndata' = data
    /\ delivered' = [c \in Callbacks |-> <<>>]
    /\ UNCHANGED <<kind, port, request>>
    /\ UNCHANGED callerVars

\* Peripheral._notify_subscribers: one turn of the for loop over the live
\* set.  The iterator raises RuntimeError when the set's size differs from
\* the size at its creation, stops when no entry is left, and otherwise
\* yields an entry, whose callback returns or raises (raises).
_notify_subscribers(raises) ==
    /\ npc = "iter"
    /\ IF Cardinality(subscribers) # it_used
       THEN /\ npc' = "idle"
            /\ nresult' = "RuntimeError"
            /\ pending' = {}
            /\ UNCHANGED delivered
       ELSE IF pending = {}
       THEN /\ npc' = "idle"
            /\ nresult' = "ok"
            /\ UNCHANGED <<pending, delivered>>
       ELSE \E subscriber \in pending :
            /\ pending' = IF raises THEN {} ELSE pending \ {subscriber}
            /\ delivered' = [delivered EXCEPT
                               ![subscriber] = Append(@, nargs)]
            /\ npc' = IF raises THEN "idle" ELSE "iter"
            /\ nresult' = IF raises THEN "CallbackError" ELSE "running"
    /\ UNCHANGED <<kind, port, request, it_used, ndata, nargs>>
    /\ UNCHANGED callerVars

(* ----------------------------- specification --------------------------- *)
Next ==
    \/ started
    \/ finished
    \/ \E color \in ColorVals, wok \in BOOLEAN : set_color(color, wok)
    \/ \E async \in BOOLEAN, wok \in BOOLEAN :
          /\ request.op = "timed"
          /\ timed(request.seconds, request.speed_primary,
                   request.speed_secondary, async, wok)
    \/ timed_wake
    \/ \E wok \in BOOLEAN :
          /\ request.op = "angled"
          /\ angled(request.angle, request.speed_primary,
                    request.speed_secondary, wok)
    \/ \E callback \in Callbacks, m \in ModeVals, wok \in BOOLEAN :
          subscribe(callback, m, wok)
    \/ \E callback \in Callbacks, wok \in BOOLEAN : unsubscribe(callback, wok)
    \/ \E b4 \in ByteVals : \E b5 \in ByteVals \ {b4} :
          handle_notification(Notification(b4, b5))
    \/ \E raises \in BOOLEAN : _notify_subscribers(raises)

Spec == Init /\ [][Next]_vars

(* ------------------------- reading a written packet -------------------- *)
\* the packet of the single write of the latest command
Packet == written[1].data

\* bytes 4.. of a packet: what follows [length][version][message type][port]
Payload(d) == SubSeq(d, 5, Len(d))

\* the 2-byte little-endian duration field of a timed motor packet
DurationField(d) == d[7] + 256 * d[8]

\* where the first speed byte of a motor packet sits (1-based)
SpeedIndex == IF lastOp.op = "timed" THEN 9 ELSE 11

\* a relative speed within [-1.0, 1.0]
InSpeedRange(s) == s >= -100 * SpeedRes /\ s <= 100 * SpeedRes

\* the errors that report an invalid argument
InvalidArgument == {"ValueError", "struct.error"}

MotorOp == lastOp.op \in {"timed", "angled"}

Abs(x) == IF x < 0 THEN -x ELSE x

(* ------------------------ the signed-degree decode --------------------- *)
\* every value a byte of the payload can take
AllBytes == 0..255

\* a tilt sensor
InitDecode == Init /\ kind = "TiltSensor"

\* the tilt sensor put in each mode and fed every byte value at offsets 4
\* and 5 of a notification (offset 5 runs through the bytes in reverse)
NextDecode ==
    \/ \E m \in TiltModes : subscribe(1, m, TRUE)
    \/ \E b \in AllBytes : handle_notification(Notification(b, 255 - b))
    \/ _notify_subscribers(FALSE)

SpecDecode == InitDecode /\ [][NextDecode]_vars

(* -------------------------------- claims ------------------------------- *)

\* C1: the first byte of every packet handed to the transport write equals
\* the packet's total byte count, which is 4 + the length of the payload
\* that follows [length][version][message type][port].
C1_LengthByte ==
    \A i \in 1..Len(written) :
        LET d == written[i].data
        IN  /\ Len(d) >= 4
            /\ d[1] = Len(d)
            /\ d[1] = 4 + Len(Payload(d))
            /\ d[2] = PACKET_VER
            /\ d[3] \in {MSG_SET_PORT_VAL, MSG_SENSOR_SUBSCRIBE}
            /\ d[4] = port

\* C1 witness: a timed command on the combined port AB was written, the
\* longest timed packet (13 bytes)
C1_Witness ==
    /\ kind = "EncodedMotor" /\ port = PORT_AB /\ lastOp.op = "timed"
    /\ Len(written) = 1
    /\ Len(Packet) = 13

\* C2 (as claimed): a subscribe or unsubscribe running while a notification
\* is fanned out neither crashes the delivery nor makes it skip a subscriber
\* it still had to reach: a delivery to a non-empty subscriber set that no
\* callback aborts ends normally with nothing left to visit.
C2_StableSnapshot ==
    [][(npc = "iter" /\ it_used > 0 /\ npc' = "idle"
        /\ nresult' # "CallbackError")
       => (nresult' = "ok" /\ pending = {})]_vars

\* C3 (as claimed): when a subscriber callback is invoked during fan-out and
\* fails, the failure does not reach the caller of handle_notification and
\* the subscribers still to be visited stay to be visited.
C3_SubscriberErrorsIsolated ==
    [][\A c \in Callbacks :
         (npc = "iter" /\ Len(delivered'[c]) > Len(delivered[c]))
         => (nresult' # "CallbackError" /\ pending' = pending \ {c})]_vars

\* C4 (as claimed): a subscribe or unsubscribe whose transport write fails
\* leaves the subscriber set as it was, and an unsubscribe also the mode.
C4_WriteFailureKeepsState ==
    [][(lastOp'.op \in {"subscribe", "unsubscribe"}
        /\ lastOp'.result = "TransportError")
       => (/\ subscribers' = subscribers
           /\ lastOp'.op = "unsubscribe" => mode' = mode)]_vars

\* C5: a TiltSensor starts in mode OFF; an unsubscribe that removes the last
\* subscriber sets the mode to OFF and hands the transport one
\* sensor-subscribe command whose mode byte is OFF; an unsubscribe that
\* leaves a subscriber changes neither the mode nor writes anything.
C5_LastUnsubscribeSwitchesOff ==
    /\ (kind = "TiltSensor" => mode = TILT_SENSOR_MODE_OFF)
    /\ [][\A c \in Callbacks, wok \in BOOLEAN :
            (unsubscribe(c, wok) /\ c \in subscribers)
            => IF subscribers = {c}
               THEN /\ mode' = TILT_SENSOR_MODE_OFF
                    /\ Len(written') = 1
                    /\ written'[1].data =
                         <<10, PACKET_VER, MSG_SENSOR_SUBSCRIBE, port,
                           TILT_SENSOR_MODE_OFF, 1, 0, 0, 0, 1>>
               ELSE /\ mode' = mode
                    /\ written' = <<>>]_vars

\* C5 witness: the last subscriber was unsubscribed while the sensor was in
\* a mode other than OFF, and the OFF command went out
C5_Witness ==
    /\ lastOp.op = "unsubscribe" /\ lastOp.result = "ok"
    /\ subscribers = {}
    /\ mode = TILT_SENSOR_MODE_OFF
    /\ Len(written) = 1
    /\ Packet[5] = TILT_SENSOR_MODE_OFF

\* C6 (as claimed): a call with an invalid argument (a color outside the
\* color table, a primary or secondary speed outside [-1, 1], a time that is
\* negative or 65536 ms or more, a tilt mode outside BASIC, 2AXIS, FULL)
\* fails with an invalid-argument error and nothing is handed to the
\* transport.
C6_InvalidArgumentsRejected ==
    LET invalid ==
          \/ lastOp.op = "set_color" /\ lastOp.color \notin COLORS
          \/ MotorOp /\ ~InSpeedRange(lastOp.speed_primary)
          \/ MotorOp /\ lastOp.speed_secondary # <<>>
                     /\ ~InSpeedRange(lastOp.speed_secondary[1])
          \/ lastOp.op = "timed"
             /\ (lastOp.seconds < 0 \/ lastOp.seconds >= TwoTo16 * TimeRes)
          \/ lastOp.op = "subscribe" /\ lastOp.mode \notin TiltModes
    IN  invalid => (lastOp.result \in InvalidArgument /\ written = <<>>)

\* C7 (as claimed): timed fails with an invalid-argument error whenever
\* seconds*1000 >= 65536 or seconds is negative; no command is written and
\* the call does not block.
C7_TimedRejectsBadSeconds ==
    (lastOp.op = "timed"
     /\ (lastOp.seconds >= TwoTo16 * TimeRes \/ lastOp.seconds < 0))
    => (lastOp.result \in InvalidArgument /\ written = <<>> /\ pc = "idle")

\* C8 (as claimed): for seconds in [0, 65.535] the duration field of the
\* packet written by timed decodes to round(seconds*1000), and
\* seconds = 65.536 is rejected with an invalid-argument error.
C8_DurationIsRounded ==
    lastOp.op = "timed" =>
      /\ (lastOp.seconds >= 0 /\ lastOp.seconds <= 65535 * TimeRes
          /\ written # <<>>)
         => DurationField(Packet) = round(lastOp.seconds, TimeRes)
      /\ lastOp.seconds = TwoTo16 * TimeRes
         => (lastOp.result \in InvalidArgument /\ written = <<>>)

\* decodeSpeed: a speed byte read as a signed byte, in percent
decodeSpeed(b) == IF b >= 128 THEN b - 256 ELSE b

\* C9 (as claimed): for a relative speed in [-1.0, 1.0] the encoded speed
\* byte, decoded as a signed byte and divided by 100, is within 1/100 of the
\* relative speed.
C9_SpeedRoundTrip ==
    (MotorOp /\ lastOp.result = "ok"
     /\ (lastOp.op = "timed" => lastOp.seconds >= 0))
    => Abs(decodeSpeed(Packet[SpeedIndex]) * SpeedRes - lastOp.speed_primary)
         <= SpeedRes

\* C10: speed encoding accepts exactly the values in [-1.0, 1.0]: a motor
\* command whose time or angle parameter packs fails with ValueError exactly
\* when a speed it encodes (the primary, and on port AB the secondary) is
\* out of range; every speed byte of a written packet is
\* round(relative*100), plus 255 when that is negative, lies in 0..255 and
\* comes from a relative speed in [-1.0, 1.0].
C10_SpeedEncoding ==
    LET p == lastOp.speed_primary
        s == IF lastOp.speed_secondary = <<>> THEN p
             ELSE lastOp.speed_secondary[1]
        expected(v) == IF round(v, SpeedRes) < 0 THEN round(v, SpeedRes) + 255
                       ELSE round(v, SpeedRes)
        packs == IF lastOp.op = "timed"
                 THEN lastOp.seconds >= 0 /\ lastOp.seconds < TwoTo16 * TimeRes
                 ELSE lastOp.angle.hi \in 0..(TwoTo16 - 1)
    IN  MotorOp =>
          /\ packs =>
               (lastOp.result = "ValueError"
                <=> (~InSpeedRange(p) \/ (port = PORT_AB /\ ~InSpeedRange(s))))
          /\ written # <<>> =>
               /\ InSpeedRange(p)
               /\ Packet[SpeedIndex] = expected(p)
               /\ Packet[SpeedIndex] \in 0..255
               /\ port = PORT_AB =>
                    /\ InSpeedRange(s)
                    /\ Packet[SpeedIndex + 1] = expected(s)
                    /\ Packet[SpeedIndex + 1] \in 0..255
               /\ port # PORT_AB =>
                    SubSeq(Packet, SpeedIndex + 1, Len(Packet)) = TRAILER

\* C10 witness: a negative primary speed and a distinct secondary speed were
\* encoded into a packet for the combined port AB
C10_Witness ==
    /\ MotorOp /\ port = PORT_AB /\ written # <<>>
    /\ lastOp.speed_primary < -SpeedRes
    /\ lastOp.speed_secondary = <<100 * SpeedRes>>
    /\ Packet[SpeedIndex] = 155
    /\ Packet[SpeedIndex + 1] = 100

(* C11 fixes the command timed(0.5, speed_primary=0.5, async=true) issued to a
   motor on port A; seconds count 1/(1000*TimeRes) s and speeds
   1/(100*SpeedRes) *)
C11_Call ==
    /\ kind = "EncodedMotor" /\ port = PORT_A
    /\ lastOp.op = "timed"
    /\ lastOp.seconds = 500 * TimeRes
    /\ lastOp.speed_primary = 50 * SpeedRes
    /\ lastOp.speed_secondary = <<>>
    /\ lastOp.async

\* C11 (amended): EncodedMotor on port A running timed(0.5,
\* speed_primary=0.5, async=true) makes exactly one transport write, of the
\* 12 bytes [12, version, MSG_SET_PORT_VAL, PORT_A, 0x11, 0x09, 0xF4, 0x01,
\* 0x32, 0x64, 0x7F, 0x03] (500 ms little-endian: low byte 0xF4 first), and
\* returns without blocking.
C11_ExactBytes ==
    C11_Call =>
        /\ Len(written) = 1
        /\ written[1].handle = MOVE_HUB_HARDWARE_HANDLE
        /\ Packet = <<12, PACKET_VER, MSG_SET_PORT_VAL, PORT_A,
                      17, 9, 244, 1, 50, 100, 127, 3>>
        /\ Packet[1] = Len(Packet)
        /\ pc = "idle"
        /\ lastOp.result \in {"ok", "TransportError"}

\* C11 witness: that call was made and returned normally
C11_Witness ==
    /\ C11_Call
    /\ lastOp.result = "ok"
    /\ Len(written) = 1
    /\ pc = "idle"

\* C11 (as claimed): the same call writes the duration bytes as 0x01, 0xF4
C11_AsClaimed ==
    C11_Call =>
        /\ Len(written) = 1
        /\ Packet = <<12, PACKET_VER, MSG_SET_PORT_VAL, PORT_A,
                      17, 9, 1, 244, 50, 100, 127, 3>>
        /\ Packet[1] = Len(Packet)
        /\ pc = "idle"

\* C14: TiltSensor.unsubscribe of a callback that is not in the subscriber
\* set fails with the not-subscribed error (KeyError of set.remove), hands
\* nothing to the transport, and leaves the subscriber set and the mode as
\* they were, whether the set is empty or holds other callbacks.
C14_UnknownCallbackRejected ==
    [][\A wok \in BOOLEAN :
          (/\ kind = "TiltSensor" /\ lastOp'.op = "unsubscribe"
           /\ lastOp'.callback \notin subscribers
           /\ unsubscribe(lastOp'.callback, wok))
          => /\ lastOp'.result = "KeyError"
             /\ written' = <<>>
             /\ subscribers' = subscribers
             /\ mode' = mode]_vars

\* C14 witness: an unsubscribe of an unknown callback was refused while
\* another callback stays subscribed in a mode other than OFF
C14_Witness ==
    /\ lastOp.op = "unsubscribe" /\ lastOp.result = "KeyError"
    /\ lastOp.callback \notin subscribers
    /\ subscribers # {}
    /\ mode \in TiltModes
    /\ written = <<>>

\* C15: a timed command with async=false makes its single transport write
\* before it blocks in the wait and returns normally only when the wait
\* ends; with async=true it returns right after the write and never waits;
\* no motor command makes a second write (nothing is written during or
\* after the wait), and an angled command never waits.
C15_WriteThenWait ==
    /\ [](MotorOp =>
            /\ Len(written) <= 1
            /\ pc = "sleeping" =>
                 /\ lastOp.op = "timed" /\ ~lastOp.async
                 /\ lastOp.result = "blocked"
                 /\ Len(written) = 1
            /\ lastOp.result = "blocked" => pc = "sleeping"
            /\ (lastOp.op = "timed" /\ lastOp.async) => pc = "idle"
            /\ lastOp.op = "angled" => pc = "idle")
    /\ [][/\ pc = "sleeping" => (written' = written /\ pc' = "idle")
          /\ (/\ lastOp' # lastOp
              /\ lastOp'.op = "timed" /\ ~lastOp'.async
              /\ lastOp'.result = "ok")
             => (/\ pc = "sleeping" /\ pc' = "idle"
                 /\ lastOp.result = "blocked"
                 /\ Len(written') = 1)]_vars

\* C15 witness: a timed command with async=false has returned after its
\* wait, having written once
C15_Witness ==
    /\ lastOp.op = "timed" /\ ~lastOp.async
    /\ lastOp.result = "ok"
    /\ pc = "idle"
    /\ Len(written) = 1

\* C16: the payload of every motor command handed to the transport is
\* [0x11][subtype][param][speed byte(s)][0x64 0x7F 0x03]: the subtype is
\* TIMED_SINGLE/ANGLED_SINGLE on a single port and TIMED_GROUP/ANGLED_GROUP
\* on the combined port AB; the param is the time in 2 bytes or the angle
\* in 4 bytes, least significant byte first; one speed byte follows on a
\* single port and two on port AB, the second encoding speed_secondary,
\* which is speed_primary when not given.
C16_PayloadLayout ==
    (MotorOp /\ written # <<>>) =>
        LET pl == Payload(Packet)
            isTimed == lastOp.op = "timed"
            combined == port = PORT_AB
            np == IF isTimed THEN 2 ELSE 4
            ns == IF combined THEN 2 ELSE 1
            param == SubSeq(pl, 3, 2 + np)
            speeds == SubSeq(pl, 3 + np, 2 + np + ns)
            p == lastOp.speed_primary
            s == IF lastOp.speed_secondary = <<>> THEN p
                 ELSE lastOp.speed_secondary[1]
        IN  /\ Len(pl) = 2 + np + ns + 3
            /\ pl[1] = 17
            /\ <<pl[2]>> = (IF isTimed
                            THEN (IF combined THEN TIMED_GROUP ELSE TIMED_SINGLE)
                            ELSE (IF combined THEN ANGLED_GROUP
                                  ELSE ANGLED_SINGLE))
            /\ \A i \in 1..np : param[i] \in 0..255
            /\ IF isTimed
               THEN param[1] + 256 * param[2] = int(lastOp.seconds, TimeRes)
               ELSE /\ param[1] + 256 * param[2] = lastOp.angle.lo
                    /\ param[3] + 256 * param[4] = lastOp.angle.hi
            /\ speeds[1] = _speed_abs(p)
            /\ combined => speeds[2] = _speed_abs(s)
            /\ SubSeq(pl, Len(pl) - 2, Len(pl)) = <<100, 127, 3>>

\* C16 witness: an angled command on port AB was written with a secondary
\* speed whose byte differs from the primary's
C16_Witness ==
    /\ lastOp.op = "angled" /\ port = PORT_AB /\ written # <<>>
    /\ lastOp.speed_secondary # <<>>
    /\ Len(Payload(Packet)) = 11
    /\ Packet[11] # Packet[12]

C19_OffIffNoSubscribers ==
    (kind = "TiltSensor" /\ pc = "idle")
    => (mode = TILT_SENSOR_MODE_OFF <=> subscribers = {})

\* the signed degree a tilt byte stands for, as the claims state it
SignedDegree(v) == IF v <= 90 THEN v ELSE v - 256

\* C13: handle_notification decodes by the mode current when the packet is
\* delivered: in BASIC and in 2AXIS the subscribers are given the one raw
\* byte at offset 4, in FULL the two signed-degree values of the bytes at
\* offsets 4 and 5; in mode OFF the packet is dropped, no subscriber is
\* invoked and no error is raised.  Every invocation passes exactly the
\* decoded values.
C13_DecodeByMode ==
    /\ [](\A c \in Callbacks : \A i \in 1..Len(delivered[c]) :
             delivered[c][i] = nargs)
    /\ [][\A b4 \in ByteVals : \A b5 \in ByteVals \ {b4} :
            handle_notification(Notification(b4, b5))
            => /\ mode = TILT_SENSOR_MODE_BASIC =>
                    (nargs' = <<b4>> /\ npc' = "iter")
               /\ mode = TILT_SENSOR_MODE_2AXIS =>
                    (nargs' = <<b4>> /\ npc' = "iter")
               /\ mode = TILT_SENSOR_MODE_FULL =>
                    (nargs' = <<SignedDegree(b4), SignedDegree(b5)>>
                     /\ npc' = "iter")
               /\ mode = TILT_SENSOR_MODE_OFF =>
                    /\ npc' = "idle" /\ nresult' = "dropped"
                    /\ \A c \in Callbacks : delivered'[c] = <<>>]_vars

\* C13 witness: in FULL mode a subscriber was invoked with the two signed
\* degrees of the bytes 90 and 91
C13_Witness ==
    /\ mode = TILT_SENSOR_MODE_FULL
    /\ ndata = Notification(90, 91)
    /\ nargs = <<90, -165>>
    /\ \E c \in subscribers : delivered[c] = <<nargs>>

\* C12 (as claimed): with callbacks subscribed to a tilt sensor in BASIC
\* mode, the delivery of one notification invokes each subscribed callback
\* exactly once, each with the single value that is the byte at offset 4 of
\* the payload: when a delivery over a subscriber set of unchanged size
\* ends, every subscribed callback holds exactly that one invocation.
C12_EachSubscriberOnce ==
    [][(/\ npc = "iter" /\ npc' = "idle"
        /\ mode = TILT_SENSOR_MODE_BASIC
        /\ nargs = <<get_byte(ndata, 4)>>
        /\ it_used = Cardinality(subscribers))
       => \A c \in subscribers' :
            delivered'[c] = << <<get_byte(ndata, 4)>> >>]_vars

\* the part of C20 about commands and mode: a successful subscribe(c, m)
\* writes a sensor-subscribe command whose mode byte is m, followed by
\* 01 00 00 00 01, and makes m the mode; an unsubscribe that leaves a
\* subscriber leaves the mode; the mode is the mode byte of the last command
\* written (an operation that writes nothing leaves the mode)
C20_ModeFollowsCommands ==
    /\ []((kind = "TiltSensor" /\ written # <<>>) =>
            /\ Len(written) = 1
            /\ Packet[3] = MSG_SENSOR_SUBSCRIBE
            /\ Packet[5] = mode
            /\ SubSeq(Packet, 6, Len(Packet)) = <<1, 0, 0, 0, 1>>)
    /\ [][/\ \A c \in Callbacks, m \in ModeVals :
               (subscribe(c, m, TRUE) /\ lastOp'.result = "ok")
               => (mode' = m /\ Packet'[5] = m /\ c \in subscribers')
          /\ \A c \in Callbacks, wok \in BOOLEAN :
               (unsubscribe(c, wok) /\ subscribers' # {}) => mode' = mode
          /\ (kind = "TiltSensor" /\ written' = <<>>) => mode' = mode]_vars

\* C20 (as claimed): a tilt sensor has one mode shared by all subscribers:
\* commands and mode go together as above, and a notification delivered in
\* FULL mode, e.g. after subscribe(cb1, BASIC) then subscribe(cb2, FULL),
\* gives the two FULL values to every subscribed callback.
C20_SharedMode ==
    /\ C20_ModeFollowsCommands
    /\ [][(/\ npc = "iter" /\ npc' = "idle"
            /\ mode = TILT_SENSOR_MODE_FULL
            /\ nargs = <<SignedDegree(get_byte(ndata, 4)),
                         SignedDegree(get_byte(ndata, 5))>>
            /\ it_used = Cardinality(subscribers))
           => \A c \in subscribers' : delivered'[c] = <<nargs>>]_vars

\* C17: the signed-degree decode of FULL-mode tilt readings maps every byte
\* v in [0, 90] to v and every byte v in [91, 255] to v - 256, so each value
\* handed to the subscribers in FULL mode lies in [-165, 90].
C17_SignedDegreeRange ==
    Len(nargs) = 2 =>
        \A i \in 1..2 :
            LET v == get_byte(ndata, 3 + i)
                r == nargs[i]
            IN  /\ v \in 0..90 => r = v
                /\ v \in 91..255 => r = v - 256
                /\ r \in (-165)..90

\* C17 witness: a subscriber was given the decode of the bytes 91 and 164,
\* the lowest degree -165 and -92
C17_Witness ==
    /\ ndata = Notification(91, 164)
    /\ nargs = <<-165, -92>>
    /\ delivered[1] = <<nargs>>

=============================================================================
